---- MODULE Spec2Model ----
(***************************************************************************)
(* short_default: the `default!` procedural macro (src/src/lib.rs).        *)
(*                                                                         *)
(* A token stream is a sequence of tokens (strings); a delimited group is  *)
(* written with its open and close delimiter and is always balanced, as    *)
(* in a proc_macro TokenStream.  The parser is the recursive descent of    *)
(* lib.rs over that sequence; the synthesizer builds the output tokens.    *)
(* An Option<T> is a sequence of length 0 (None) or 1 (Some).              *)
(***************************************************************************)
EXTENDS Naturals, Sequences, FiniteSets, TLC

VARIABLES tokenstream, decl, pc, parsed, entries, default_impl, item_struct, output

vars == <<tokenstream, decl, pc, parsed, entries, default_impl, item_struct, output>>

(* Largest number of fields in a declared field list. *)
MaxFields == 2

(***************************************************************************)
(* Tokens                                                                  *)
(***************************************************************************)
Idents == {"S", "a", "b", "c", "d", "T", "U", "u8", "B"}
Literals == {"0", "1"}
AttrToks == {"#[a]", "#[f]"}
(* where-predicates; a predicate of BarePathPreds ends in a trait path     *)
(* without arguments (`T: Tr`), one outside it in a path with arguments.   *)
Preds == {"T:Tr", "U:A<u8>"}
BarePathPreds == {"T:Tr"}

Ok(v, r) == [ok |-> TRUE, val |-> v, rest |-> r]
Err(r) == [ok |-> FALSE, val |-> <<>>, rest |-> r]

(* `let v = e;`: e is evaluated once and bound. *)
Let(e, K(_)) == CHOOSE x \in {K(v) : v \in {e}} : TRUE

(* The `?` operator: an Err result is returned, an Ok result is bound. *)
Try(r, K(_)) == CHOOSE x \in {IF v.ok THEN K(v) ELSE Err(v.rest) : v \in {r}} : TRUE

(* ParseStream::peek: false on an empty stream. *)
Peek(s, t) == s # <<>> /\ Head(s) = t

Drop(s, n) == SubSeq(s, n + 1, Len(s))

RECURSIVE CloseIdx(_, _, _)
(* Index of the delimiter closing the group opened at s[1] (call with      *)
(* i = 1, d = 0); 0 when there is none.                                    *)
CloseIdx(s, i, d) ==
  IF i > Len(s) THEN 0
  ELSE IF s[i] \in {"(", "{"} THEN CloseIdx(s, i + 1, d + 1)
  ELSE IF s[i] \in {")", "}"} THEN (IF d = 1 THEN i ELSE CloseIdx(s, i + 1, d - 1))
  ELSE CloseIdx(s, i + 1, d)

(* syn::parenthesized!/braced!(content in input): val is the content. *)
Delimited(open, s) ==
  IF ~Peek(s, open) THEN Err(s)
  ELSE Let(CloseIdx(s, 1, 0), LAMBDA j :
       IF j = 0 THEN Err(s) ELSE Ok(SubSeq(s, 2, j - 1), Drop(s, j)))

RECURSIVE ParseAttrs(_, _)
(* input.call(syn::Attribute::parse_outer) *)
ParseAttrs(s, acc) ==
  IF s # <<>> /\ Head(s) \in AttrToks THEN ParseAttrs(Tail(s), Append(acc, Head(s)))
  ELSE Ok(acc, s)

(* input.parse::<syn::Visibility>(): inherited when no `pub` follows. *)
ParseVis(s) == IF Peek(s, "pub") THEN Ok(<<"pub">>, Tail(s)) ELSE Ok(<<>>, s)

(* input.parse::<syn::Ident>() *)
ParseIdent(s) == IF s # <<>> /\ Head(s) \in Idents THEN Ok(Head(s), Tail(s)) ELSE Err(s)

(* input.parse::<Token![..]>() *)
ParseTok(t, s) == IF Peek(s, t) THEN Ok(t, Tail(s)) ELSE Err(s)

RECURSIVE ParseType(_)
RECURSIVE TypeListOk(_)
(* syn::Type: a path type (one identifier) or a tuple type, a parenthesized *)
(* comma-separated list of types taken whole.                              *)
ParseType(s) ==
  IF s = <<>> THEN Err(s)
  ELSE IF Head(s) \in Idents THEN Ok(<<Head(s)>>, Tail(s))
  ELSE IF Head(s) = "("
  THEN Try(Delimited("(", s), LAMBDA g :
       IF TypeListOk(g.val) THEN Ok(SubSeq(s, 1, Len(s) - Len(g.rest)), g.rest) ELSE Err(s))
  ELSE Err(s)

TypeListOk(c) ==
  IF c = <<>> THEN TRUE
  ELSE Let(ParseType(c), LAMBDA t :
       t.ok /\ (t.rest = <<>> \/ (Head(t.rest) = "," /\ TypeListOk(Tail(t.rest)))))

RECURSIVE ParseOperand(_)
RECURSIVE ExprTail(_, _)
RECURSIVE ExprListOk(_)
(* An operand of syn::Expr: a literal, a path, or a parenthesized          *)
(* comma-separated list of expressions (paren/tuple expression) taken      *)
(* whole, commas included.                                                 *)
ParseOperand(s) ==
  IF s = <<>> THEN Err(s)
  ELSE IF Head(s) \in Literals \cup Idents THEN Ok(<<Head(s)>>, Tail(s))
  ELSE IF Head(s) = "("
  THEN Try(Delimited("(", s), LAMBDA g :
       IF ExprListOk(g.val) THEN Ok(SubSeq(s, 1, Len(s) - Len(g.rest)), g.rest) ELSE Err(s))
  ELSE Err(s)

(* ExprTail with the field separator taken as an operator. *)
ExprTail_EatsComma(acc, r) ==
  IF Peek(r, "+") \/ Peek(r, ",")
  THEN Let(ParseOperand(Tail(r)), LAMBDA o :
       IF o.ok THEN ExprTail(acc \o <<Head(r)>> \o o.val, o.rest) ELSE Ok(acc, r))
  ELSE Ok(acc, r)

(* Binary-operator loop of syn::Expr: continues only on an operator, so it *)
(* leaves a following `,` (or any other token) in the stream.              *)
ExprTail(acc, r) ==
  IF Peek(r, "+")
  THEN Try(ParseOperand(Tail(r)), LAMBDA o : ExprTail(acc \o <<"+">> \o o.val, o.rest))
  ELSE Ok(acc, r)

(* input.parse::<syn::Expr>() *)
ParseExpr(s) == Try(ParseOperand(s), LAMBDA o : ExprTail(o.val, o.rest))

ExprListOk(c) ==
  IF c = <<>> THEN TRUE
  ELSE Let(ParseExpr(c), LAMBDA e :
       e.ok /\ (e.rest = <<>> \/ (Head(e.rest) = "," /\ ExprListOk(Tail(e.rest)))))

(* The optional `: bound` of a generic parameter. *)
ParamBounds(s) ==
  IF Peek(s, ":") THEN Try(ParseIdent(Tail(s)), LAMBDA b : Ok(<<b.val>>, b.rest))
  ELSE Ok(<<>>, s)

RECURSIVE GenericParams(_, _)
(* The parameters of syn::Generics after `<`: name, optional `: bound`. *)
GenericParams(r, acc) ==
  IF Peek(r, ">") THEN Ok(acc, Tail(r))
  ELSE Try(ParseIdent(r), LAMBDA n :
       Try(ParamBounds(n.rest), LAMBDA b :
       Let(Append(acc, [name |-> n.val, bounds |-> b.val]), LAMBDA params :
       IF Peek(b.rest, ">") THEN Ok(params, Tail(b.rest))
       ELSE IF Peek(b.rest, ",") THEN GenericParams(Tail(b.rest), params)
       ELSE Err(b.rest))))

(* input.parse::<syn::Generics>(): `<...>` only; its where_clause is None. *)
ParseGenerics(s) ==
  IF Peek(s, "<")
  THEN Try(GenericParams(Tail(s), <<>>), LAMBDA g :
       Ok([params |-> g.val, where_clause |-> <<>>], g.rest))
  ELSE Ok([params |-> <<>>, where_clause |-> <<>>], s)

(* The parenthesized arguments a trait path without arguments takes when   *)
(* a parenthesized group follows it (`Tr(u8)`): a list of types.           *)
ParenthesizedArgs(pred, s) ==
  IF pred \in BarePathPreds /\ Peek(s, "(")
  THEN Try(Delimited("(", s), LAMBDA g : IF TypeListOk(g.val) THEN g ELSE Err(s))
  ELSE Ok(<<>>, s)

RECURSIVE WherePredicates(_, _)
(* The predicate loop of syn::WhereClause; val is the tokens consumed. *)
WherePredicates(r, acc) ==
  IF r = <<>> \/ Head(r) \in {"{", ",", ";", ":", "="} THEN Ok(acc, r)
  ELSE IF Head(r) \notin Preds THEN Err(r)
  ELSE Try(ParenthesizedArgs(Head(r), Tail(r)), LAMBDA g :
       Let(acc \o SubSeq(r, 1, Len(r) - Len(g.rest)), LAMBDA used :
       IF Peek(g.rest, ",") THEN WherePredicates(Tail(g.rest), used \o <<",">>)
       ELSE Ok(used, g.rest)))

(* input.parse::<syn::WhereClause>() *)
ParseWhereClause(s) ==
  IF ~Peek(s, "where") THEN Err(s) ELSE WherePredicates(Tail(s), <<"where">>)

(***************************************************************************)
(* lib.rs: the extended-definition parser                                  *)
(***************************************************************************)

(* impl Parse for DefaultValue: `=` then an expression. *)
DefaultValue_parse(input) ==
  Try(ParseTok("=", input), LAMBDA equal_sign :
  Try(ParseExpr(equal_sign.rest), LAMBDA value :
  Ok([equal_sign |-> "=", value |-> value.val], value.rest)))

(* syn::Field::parse_named: attributes, visibility, name, `:`, type. *)
Field_parse_named(input) ==
  Try(ParseAttrs(input, <<>>), LAMBDA attrs :
  Try(ParseVis(attrs.rest), LAMBDA vis :
  Try(ParseIdent(vis.rest), LAMBDA ident :
  Try(ParseTok(":", ident.rest), LAMBDA colon :
  Try(ParseType(colon.rest), LAMBDA ty :
  Ok([attrs |-> attrs.val, vis |-> vis.val, ident |-> <<ident.val>>,
      colon_token |-> <<":">>, ty |-> ty.val], ty.rest))))))

(* syn::Field::parse_unnamed: attributes, visibility, type. *)
Field_parse_unnamed(input) ==
  Try(ParseAttrs(input, <<>>), LAMBDA attrs :
  Try(ParseVis(attrs.rest), LAMBDA vis :
  Try(ParseType(vis.rest), LAMBDA ty :
  Ok([attrs |-> attrs.val, vis |-> vis.val, ident |-> <<>>,
      colon_token |-> <<>>, ty |-> ty.val], ty.rest))))

(* CustomField::parse_named: a DefaultValue is parsed unless the next      *)
(* token is a comma.                                                       *)
CustomField_parse_named(input) ==
  Try(Field_parse_named(input), LAMBDA field :
  IF ~Peek(field.rest, ",")
  THEN Try(DefaultValue_parse(field.rest), LAMBDA dv :
       Ok([field |-> field.val, default_value |-> <<dv.val>>], dv.rest))
  ELSE Ok([field |-> field.val, default_value |-> <<>>], field.rest))

(* CustomField::parse_unnamed, likewise. *)
CustomField_parse_unnamed(input) ==
  Try(Field_parse_unnamed(input), LAMBDA field :
  IF ~Peek(field.rest, ",")
  THEN Try(DefaultValue_parse(field.rest), LAMBDA dv :
       Ok([field |-> field.val, default_value |-> <<dv.val>>], dv.rest))
  ELSE Ok([field |-> field.val, default_value |-> <<>>], field.rest))

RECURSIVE parse_terminated(_, _, _)
(* content.parse_terminated(CustomField::parse_*, Token![,]): values       *)
(* separated by commas, a trailing comma allowed, until the content ends.  *)
parse_terminated(named, content, acc) ==
  IF content = <<>> THEN Ok(acc, content)
  ELSE Try(IF named THEN CustomField_parse_named(content)
           ELSE CustomField_parse_unnamed(content), LAMBDA value :
       IF value.rest = <<>> THEN Ok(Append(acc, value.val), value.rest)
       ELSE Try(ParseTok(",", value.rest), LAMBDA punct :
            parse_terminated(named, punct.rest, Append(acc, value.val))))

(* impl Parse for CustomFieldsNamed *)
CustomFieldsNamed_parse(input) ==
  Try(Delimited("{", input), LAMBDA content :
  Try(parse_terminated(TRUE, content.val, <<>>), LAMBDA named :
  Ok([shape |-> "Named", list |-> named.val], content.rest)))

(* impl Parse for CustomFieldsUnnamed *)
CustomFieldsUnnamed_parse(input) ==
  Try(Delimited("(", input), LAMBDA content :
  Try(parse_terminated(FALSE, content.val, <<>>), LAMBDA unnamed :
  Ok([shape |-> "Unnamed", list |-> unnamed.val], content.rest)))

(* CustomFields::Unit *)
Unit == [shape |-> "Unit", list |-> <<>>]

(* `if lookahead.peek(Token![where]) { where_clause = Some(input.parse()?) }` *)
(* of fn data_struct: val is the where-clause held afterwards.             *)
OptWhere(where_clause, input) ==
  IF Peek(input, "where")
  THEN Try(ParseWhereClause(input), LAMBDA w : Ok(<<w.val>>, w.rest))
  ELSE Ok(where_clause, input)

(* data_struct_unnamed that takes the `;` when there is one. *)
data_struct_unnamed_OptionalSemi(where_clause, input) ==
  Try(CustomFieldsUnnamed_parse(input), LAMBDA fields :
  Try(OptWhere(where_clause, fields.rest), LAMBDA w :
  IF Peek(w.rest, ";")
  THEN Ok([where_clause |-> w.val, fields |-> fields.val, semi_token |-> <<";">>],
          Tail(w.rest))
  ELSE Ok([where_clause |-> w.val, fields |-> fields.val, semi_token |-> <<>>], w.rest)))

(* The parenthesized branch of fn data_struct: the field list, an optional *)
(* where-clause, then a required `;`.                                      *)
data_struct_unnamed(where_clause, input) ==
  Try(CustomFieldsUnnamed_parse(input), LAMBDA fields :
  Try(OptWhere(where_clause, fields.rest), LAMBDA w :
  IF Peek(w.rest, ";")
  THEN Ok([where_clause |-> w.val, fields |-> fields.val, semi_token |-> <<";">>],
          Tail(w.rest))
  ELSE Err(w.rest)))

(* data_struct that enters the parenthesized branch after a where-clause. *)
data_struct_NoWhereGuard(input) ==
  Try(OptWhere(<<>>, input), LAMBDA w :
  IF Peek(w.rest, "(") THEN data_struct_unnamed(w.val, w.rest)
  ELSE IF Peek(w.rest, "{")
  THEN Try(CustomFieldsNamed_parse(w.rest), LAMBDA fields :
       Ok([where_clause |-> w.val, fields |-> fields.val, semi_token |-> <<>>], fields.rest))
  ELSE IF Peek(w.rest, ";")
  THEN Ok([where_clause |-> w.val, fields |-> Unit, semi_token |-> <<";">>], Tail(w.rest))
  ELSE Err(w.rest))

(* fn data_struct: (where_clause, fields, semi_token). *)
data_struct(input) ==
  Try(OptWhere(<<>>, input), LAMBDA w :
  IF w.val = <<>> /\ Peek(w.rest, "(") THEN data_struct_unnamed(w.val, w.rest)
  ELSE IF Peek(w.rest, "{")
  THEN Try(CustomFieldsNamed_parse(w.rest), LAMBDA fields :
       Ok([where_clause |-> w.val, fields |-> fields.val, semi_token |-> <<>>], fields.rest))
  ELSE IF Peek(w.rest, ";")
  THEN Ok([where_clause |-> w.val, fields |-> Unit, semi_token |-> <<";">>], Tail(w.rest))
  ELSE Err(w.rest))

(* impl Parse for Parsed *)
Parsed_parse(input) ==
  Try(ParseAttrs(input, <<>>), LAMBDA attrs :
  Try(ParseVis(attrs.rest), LAMBDA vis :
  Try(ParseTok("struct", vis.rest), LAMBDA struct_token :
  Try(ParseIdent(struct_token.rest), LAMBDA ident :
  Try(ParseGenerics(ident.rest), LAMBDA generics :
  Try(data_struct(generics.rest), LAMBDA ds :
  Ok([attrs |-> attrs.val, vis |-> vis.val, struct_token |-> struct_token.val,
      ident |-> ident.val,
      generics |-> [params |-> generics.val.params, where_clause |-> ds.val.where_clause],
      fields |-> ds.val.fields, semi_token |-> ds.val.semi_token], ds.rest)))))))

(* parse_macro_input that does not look at the tokens left over. *)
parse_macro_input_IgnoreRest(ts) == Parsed_parse(ts)

(* syn::parse_macro_input!: Parsed::parse over the whole stream; tokens    *)
(* left over after the definition are an error.                            *)
parse_macro_input(ts) ==
  Let(Parsed_parse(ts), LAMBDA p : IF p.ok /\ p.rest # <<>> THEN Err(p.rest) ELSE p)

(***************************************************************************)
(* lib.rs: the synthesizer                                                 *)
(***************************************************************************)

RECURSIVE Join(_, _)
(* quote's `#(#x),*` and Punctuated's ToTokens: the items with the         *)
(* separator between them, none after the last.                            *)
Join(items, sep) ==
  IF items = <<>> THEN <<>>
  ELSE IF Len(items) = 1 THEN items[1]
  ELSE items[1] \o <<sep>> \o Join(Tail(items), sep)

(* FormattedValue that ignores the default expression. *)
FormattedValue_AlwaysDefault(cf) ==
  <<"<">> \o cf.field.ty
  \o <<"as", "core", "::", "default", "::", "Default", ">", "::", "default", "(", ")">>

(* The `match &default_value` of both to_formatted_defaults: the default   *)
(* expression, else `<#ty as core::default::Default>::default()`.          *)
FormattedValue(cf) ==
  IF cf.default_value # <<>> THEN cf.default_value[1].value
  ELSE <<"<">> \o cf.field.ty
       \o <<"as", "core", "::", "default", "::", "Default", ">", "::", "default", "(", ")">>

(* CustomFieldsNamed::to_formatted_defaults: `#ident: #value` per field. *)
CustomFieldsNamed_to_formatted_defaults(named) ==
  [i \in 1..Len(named) |-> named[i].field.ident \o <<":">> \o FormattedValue(named[i])]

(* CustomFieldsUnnamed::to_formatted_defaults: `#value` per field. *)
CustomFieldsUnnamed_to_formatted_defaults(unnamed) ==
  [i \in 1..Len(unnamed) |-> FormattedValue(unnamed[i])]

(* StripFields that collects the fields back to front. *)
StripFields_Reversed(fields) ==
  [shape |-> fields.shape,
   list |-> [i \in 1..Len(fields.list) |-> fields.list[Len(fields.list) + 1 - i].field]]

(* The `fields` mapping of Parsed::into_item_struct: each CustomField      *)
(* gives its syn::Field, in order (Punctuated::from_iter).                 *)
StripFields(fields) ==
  [shape |-> fields.shape, list |-> [i \in 1..Len(fields.list) |-> fields.list[i].field]]

(* Parsed::into_item_struct *)
into_item_struct(self) ==
  [attrs |-> self.attrs, vis |-> self.vis, struct_token |-> self.struct_token,
   ident |-> self.ident, generics |-> self.generics,
   fields |-> StripFields(self.fields), semi_token |-> self.semi_token]

(* One generic parameter as written: name and `: bounds`. *)
ParamTokens(p) == <<p.name>> \o (IF p.bounds = <<>> THEN <<>> ELSE <<":">> \o p.bounds)

(* split_for_impl whose type arguments keep the parameters' bounds. *)
split_for_impl_TyWithBounds(generics) ==
  [impl_generics |->
     IF generics.params = <<>> THEN <<>>
     ELSE <<"<">> \o Join([i \in 1..Len(generics.params) |-> ParamTokens(generics.params[i])], ",")
          \o <<">">>,
   ty_generics |->
     IF generics.params = <<>> THEN <<>>
     ELSE <<"<">> \o Join([i \in 1..Len(generics.params) |-> ParamTokens(generics.params[i])], ",")
          \o <<">">>,
   where_clause |-> IF generics.where_clause = <<>> THEN <<>> ELSE generics.where_clause[1]]

(* generics.split_for_impl(): the impl header's parameters (with bounds),  *)
(* the type's arguments (names only) and the where-clause.                 *)
split_for_impl(generics) ==
  [impl_generics |->
     IF generics.params = <<>> THEN <<>>
     ELSE <<"<">> \o Join([i \in 1..Len(generics.params) |-> ParamTokens(generics.params[i])], ",")
          \o <<">">>,
   ty_generics |->
     IF generics.params = <<>> THEN <<>>
     ELSE <<"<">> \o Join([i \in 1..Len(generics.params) |-> <<generics.params[i].name>>], ",")
          \o <<">">>,
   where_clause |-> IF generics.where_clause = <<>> THEN <<>> ELSE generics.where_clause[1]]

(* `let entries = ...to_formatted_defaults()` of Parsed::impl_default, by   *)
(* shape; Unit has none.                                                   *)
FormattedDefaults(fields) ==
  IF fields.shape = "Named" THEN CustomFieldsNamed_to_formatted_defaults(fields.list)
  ELSE IF fields.shape = "Unnamed" THEN CustomFieldsUnnamed_to_formatted_defaults(fields.list)
  ELSE <<>>

(* ConstructorExpr that uses the initializer-list form for every shape. *)
ConstructorExpr_AlwaysBraces(fields) ==
  <<"Self", "{">> \o Join(FormattedDefaults(fields), ",") \o <<"}">>

(* The `match fields` of Parsed::impl_default: the constructor expression. *)
ConstructorExpr(fields) ==
  IF fields.shape = "Named"
  THEN <<"Self", "{">> \o Join(FormattedDefaults(fields), ",") \o <<"}">>
  ELSE IF fields.shape = "Unnamed"
  THEN <<"Self", "(">> \o Join(FormattedDefaults(fields), ",") \o <<")">>
  ELSE <<"Self">>

(* The impl header of Parsed::impl_default. *)
ImplHeader(self) ==
  LET g == split_for_impl(self.generics)
  IN <<"impl">> \o g.impl_generics \o <<"core", "::", "default", "::", "Default", "for">>
     \o <<self.ident>> \o g.ty_generics \o g.where_clause

(* Parsed::impl_default *)
impl_default(self) ==
  ImplHeader(self) \o <<"{", "fn", "default", "(", ")", "->", "Self", "{">>
  \o ConstructorExpr(self.fields) \o <<"}", "}">>

(* ToTokens of a syn::Field *)
FieldTokens(f) == f.attrs \o f.vis \o f.ident \o f.colon_token \o f.ty

(* ToTokens of syn::ItemStruct (`#item_struct`): the where-clause precedes *)
(* a braced field list and follows a parenthesized one.                    *)
ItemStructTokens(it) ==
  LET g == split_for_impl(it.generics)
      fs == Join([i \in 1..Len(it.fields.list) |-> FieldTokens(it.fields.list[i])], ",")
  IN it.attrs \o it.vis \o <<it.struct_token, it.ident>> \o g.impl_generics
     \o (IF it.fields.shape = "Named" THEN g.where_clause \o <<"{">> \o fs \o <<"}">>
         ELSE IF it.fields.shape = "Unnamed"
         THEN <<"(">> \o fs \o <<")">> \o g.where_clause \o <<";">>
         ELSE g.where_clause \o <<";">>)

(* default_quote without the `const _: () = { ... };` around the impl. *)
default_quote_NoConst(item, impl) == ItemStructTokens(item) \o impl

(* The quote! of fn default: the item, then the impl inside `const _`. *)
default_quote(item, impl) ==
  ItemStructTokens(item) \o <<"const", "_", ":", "(", ")", "=", "{">> \o impl \o <<"}", ";">>

(* err.to_compile_error(), the early return of parse_macro_input!. *)
to_compile_error == <<"::core::compile_error!", "{", "syntax error", "}">>

(***************************************************************************)
(* The invocations checked: declarations written out as token streams.     *)
(* Each template pairs the tokens as written with what they declare; wf    *)
(* says whether the tokens follow the extended grammar.                    *)
(***************************************************************************)
NoField == [attrs |-> <<>>, vis |-> <<>>, ident |-> <<>>, colon_token |-> <<>>, ty |-> <<>>]

Fld(a, v, n, c, t) == [attrs |-> a, vis |-> v, ident |-> n, colon_token |-> c, ty |-> t]

NamedTemplates ==
  { [tokens |-> <<"a", ":", "u8">>,
     field |-> Fld(<<>>, <<>>, <<"a">>, <<":">>, <<"u8">>), dflt |-> <<>>, wf |-> TRUE],
    [tokens |-> <<"b", ":", "T", "=", "1">>,
     field |-> Fld(<<>>, <<>>, <<"b">>, <<":">>, <<"T">>), dflt |-> <<<<"1">>>>, wf |-> TRUE],
    [tokens |-> <<"#[f]", "pub", "c", ":", "(", "u8", ",", "u8", ")", "=", "(", "0", ",", "1", ")">>,
     field |-> Fld(<<"#[f]">>, <<"pub">>, <<"c">>, <<":">>, <<"(", "u8", ",", "u8", ")">>),
     dflt |-> <<<<"(", "0", ",", "1", ")">>>>, wf |-> TRUE],
    [tokens |-> <<"d", ":", "u8", "=", "0", "+", "1">>,
     field |-> Fld(<<>>, <<>>, <<"d">>, <<":">>, <<"u8">>), dflt |-> <<<<"0", "+", "1">>>>,
     wf |-> TRUE],
    [tokens |-> <<"b", ":", "T", "=", "1", "0">>, field |-> NoField, dflt |-> <<>>, wf |-> FALSE],
    [tokens |-> <<"a", "u8">>, field |-> NoField, dflt |-> <<>>, wf |-> FALSE] }

UnnamedTemplates ==
  { [tokens |-> <<"u8">>,
     field |-> Fld(<<>>, <<>>, <<>>, <<>>, <<"u8">>), dflt |-> <<>>, wf |-> TRUE],
    [tokens |-> <<"T", "=", "1">>,
     field |-> Fld(<<>>, <<>>, <<>>, <<>>, <<"T">>), dflt |-> <<<<"1">>>>, wf |-> TRUE],
    [tokens |-> <<"#[f]", "pub", "(", "u8", ",", "u8", ")", "=", "(", "0", ",", "1", ")">>,
     field |-> Fld(<<"#[f]">>, <<"pub">>, <<>>, <<>>, <<"(", "u8", ",", "u8", ")">>),
     dflt |-> <<<<"(", "0", ",", "1", ")">>>>, wf |-> TRUE],
    [tokens |-> <<"u8", "=", "0", "+", "1">>,
     field |-> Fld(<<>>, <<>>, <<>>, <<>>, <<"u8">>), dflt |-> <<<<"0", "+", "1">>>>,
     wf |-> TRUE],
    [tokens |-> <<"T", "=", "1", "0">>, field |-> NoField, dflt |-> <<>>, wf |-> FALSE],
    [tokens |-> <<"=", "1">>, field |-> NoField, dflt |-> <<>>, wf |-> FALSE] }

HeadTemplates ==
  { [tokens |-> <<"struct", "S">>, attrs |-> <<>>, vis |-> <<>>, ident |-> "S",
     params |-> <<>>, pred |-> "U:A<u8>", wf |-> TRUE],
    [tokens |-> <<"#[a]", "pub", "struct", "S", "<", "T", ">">>, attrs |-> <<"#[a]">>,
     vis |-> <<"pub">>, ident |-> "S", params |-> <<[name |-> "T", bounds |-> <<>>]>>,
     pred |-> "T:Tr", wf |-> TRUE],
    [tokens |-> <<"struct", "S", "<", "T", ":", "B", ",", "U", ">">>, attrs |-> <<>>,
     vis |-> <<>>, ident |-> "S",
     params |-> <<[name |-> "T", bounds |-> <<"B">>], [name |-> "U", bounds |-> <<>>]>>,
     pred |-> "U:A<u8>", wf |-> TRUE],
    [tokens |-> <<"pub", "S">>, attrs |-> <<>>, vis |-> <<"pub">>, ident |-> "S",
     params |-> <<>>, pred |-> "T:Tr", wf |-> FALSE] }

FieldLists(T) == UNION {[1..n -> T] : n \in 0..MaxFields}

(* A declaration: head, body shape, fields, whether a comma follows the    *)
(* last field, a where-clause before / after the field list, and whether   *)
(* a `;` follows the body.                                                 *)
Decls ==
  { [head |-> h, shape |-> "Named", fields |-> fs, trailing |-> tr,
     where_before |-> wb, where_after |-> FALSE, semi |-> sm] :
       h \in HeadTemplates, fs \in FieldLists(NamedTemplates), tr \in BOOLEAN,
       wb \in BOOLEAN, sm \in BOOLEAN }
  \cup
  { [head |-> h, shape |-> "Unnamed", fields |-> fs, trailing |-> tr,
     where_before |-> wb, where_after |-> wa, semi |-> sm] :
       h \in HeadTemplates, fs \in FieldLists(UnnamedTemplates), tr \in BOOLEAN,
       wb \in BOOLEAN, wa \in BOOLEAN, sm \in BOOLEAN }
  \cup
  { [head |-> h, shape |-> sh, fields |-> <<>>, trailing |-> FALSE,
     where_before |-> wb, where_after |-> FALSE, semi |-> sm] :
       h \in HeadTemplates, sh \in {"Unit", "Bad"}, wb \in BOOLEAN, sm \in BOOLEAN }

(* The token stream a declaration is written as. *)
Written(d) ==
  LET w == <<"where", d.head.pred>>
      fs == Join([i \in 1..Len(d.fields) |-> d.fields[i].tokens], ",")
            \o (IF d.trailing THEN <<",">> ELSE <<>>)
  IN d.head.tokens \o (IF d.where_before THEN w ELSE <<>>)
     \o (IF d.shape = "Named" THEN <<"{">> \o fs \o <<"}">>
         ELSE IF d.shape = "Unnamed" THEN <<"(">> \o fs \o <<")">>
         ELSE IF d.shape = "Bad" THEN <<"=">> ELSE <<>>)
     \o (IF d.where_after THEN w ELSE <<>>)
     \o (IF d.semi THEN <<";">> ELSE <<>>)

(***************************************************************************)
(* fn default as a state machine                                           *)
(***************************************************************************)
Init ==
  /\ decl \in {d \in Decls : d.trailing => d.fields # <<>>}
  /\ tokenstream = Written(decl)
  /\ pc = "start"
  /\ parsed = <<>>
  /\ entries = <<>>
  /\ default_impl = <<>>
  /\ item_struct = <<>>
  /\ output = <<>>

(* parse_macro_input! succeeds: `parsed` holds the Parsed value. *)
ParseOk ==
  /\ pc = "start"
  /\ parse_macro_input(tokenstream).ok
  /\ parsed' = <<parse_macro_input(tokenstream).val>>
  /\ pc' = "parsed"
  /\ UNCHANGED <<tokenstream, decl, entries, default_impl, item_struct, output>>

(* parse_macro_input! fails: fn default returns the compile error. *)
ParseErr ==
  /\ pc = "start"
  /\ ~parse_macro_input(tokenstream).ok
  /\ output' = to_compile_error
  /\ pc' = "done"
  /\ UNCHANGED <<tokenstream, decl, parsed, entries, default_impl, item_struct>>

(* let default_impl = parsed.impl_default(); *)
ImplDefault ==
  /\ pc = "parsed"
  /\ entries' = FormattedDefaults(parsed[1].fields)
  /\ default_impl' = impl_default(parsed[1])
  /\ pc' = "impl"
  /\ UNCHANGED <<tokenstream, decl, parsed, item_struct, output>>

(* let item_struct = parsed.into_item_struct(); (consumes parsed) *)
IntoItemStruct ==
  /\ pc = "impl"
  /\ item_struct' = <<into_item_struct(parsed[1])>>
  /\ pc' = "item"
  /\ UNCHANGED <<tokenstream, decl, parsed, entries, default_impl, output>>

(* quote!(#item_struct const _: () = { #default_impl };).into() *)
Quote ==
  /\ pc = "item"
  /\ output' = default_quote(item_struct[1], default_impl)
  /\ pc' = "done"
  /\ UNCHANGED <<tokenstream, decl, parsed, entries, default_impl, item_struct>>

Next == ParseOk \/ ParseErr \/ ImplDefault \/ IntoItemStruct \/ Quote

Spec == Init /\ [][Next]_vars

(***************************************************************************)
(* What a declaration says, read off its templates (not off the parser)    *)
(***************************************************************************)
FieldsWf(d) == \A i \in 1..Len(d.fields) : d.fields[i].wf

(* The last field is followed by a comma or carries a default. *)
LastFieldClosed(d) ==
  d.fields = <<>> \/ d.trailing \/ d.fields[Len(d.fields)].dflt # <<>>

(* The body as a standard definition has it: braces and no `;`, or         *)
(* parentheses, no where-clause before them, and `;`, or just `;`.         *)
StdBody(d) ==
  \/ d.shape = "Named" /\ ~d.semi
  \/ d.shape = "Unnamed" /\ ~d.where_before /\ d.semi
  \/ d.shape = "Unit" /\ d.semi

(* The extended grammar as spec.md writes it (a where-clause may also      *)
(* precede the parentheses).                                               *)
GrammarOk(d) ==
  /\ d.head.wf
  /\ FieldsWf(d)
  /\ \/ d.shape = "Named" /\ ~d.semi
     \/ d.shape = "Unnamed" /\ d.semi
     \/ d.shape = "Unit" /\ d.semi

(* `where T: Tr (..)`: the parenthesized list reads as the arguments of    *)
(* the bound, so the tokens do not declare a tuple structure.              *)
BoundTakesParens(d) ==
  d.shape = "Unnamed" /\ d.where_before /\ d.head.pred \in BarePathPreds

DeclWhere(d) ==
  IF d.where_before \/ d.where_after THEN <<<<"where", d.head.pred>>>> ELSE <<>>

DefaultCall(ty) ==
  <<"<">> \o ty \o <<"as", "core", "::", "default", "::", "Default", ">", "::", "default", "(", ")">>

ExpectedValue(t) == IF t.dflt # <<>> THEN t.dflt[1] ELSE DefaultCall(t.field.ty)

ExpectedEntry(d, i) ==
  (IF d.shape = "Named" THEN d.fields[i].field.ident \o <<":">> ELSE <<>>)
  \o ExpectedValue(d.fields[i])

PlainField(f) == f.attrs \o f.vis \o f.ident \o f.colon_token \o f.ty

(* The declaration written without any `= expr` (and without the comma     *)
(* after the last field).                                                  *)
WrittenPlain(d) ==
  LET w == <<"where", d.head.pred>>
      fs == Join([i \in 1..Len(d.fields) |-> PlainField(d.fields[i].field)], ",")
  IN d.head.tokens \o (IF d.where_before THEN w ELSE <<>>)
     \o (IF d.shape = "Named" THEN <<"{">> \o fs \o <<"}">>
         ELSE IF d.shape = "Unnamed" THEN <<"(">> \o fs \o <<")">> ELSE <<>>)
     \o (IF d.where_after THEN w ELSE <<>>)
     \o (IF d.semi THEN <<";">> ELSE <<>>)

(* The plain definition expected for a declaration; a parenthesized list   *)
(* that reads as the arguments of a where-bound is kept as written.        *)
PlainTokens(d) == IF BoundTakesParens(d) THEN Written(d) ELSE WrittenPlain(d)

IsPrefix(p, s) == Len(p) <= Len(s) /\ SubSeq(s, 1, Len(p)) = p
IsSuffix(p, s) == Len(p) <= Len(s) /\ SubSeq(s, Len(s) - Len(p) + 1, Len(s)) = p

Synthesized == pc \in {"impl", "item", "done"} /\ parsed # <<>>
Emitted == pc \in {"item", "done"} /\ parsed # <<>>

(***************************************************************************)
(* Claims                                                                  *)
(***************************************************************************)

(* C1: default precedence per field in declaration order: the constructor  *)
(* has one entry per declared field, entry i is field i's, and its value   *)
(* is the field's `= expr` tokens when it has one and otherwise            *)
(* `<T as core::default::Default>::default()` on the declared type.        *)
C1_DefaultPrecedence ==
  (Synthesized /\ parsed[1].fields.shape \in {"Named", "Unnamed"}) =>
    /\ Len(entries) = Len(decl.fields)
    /\ \A i \in 1..Len(decl.fields) : entries[i] = ExpectedEntry(decl, i)

C1_Witness ==
  /\ pc = "done" /\ parsed # <<>> /\ decl.shape = "Named" /\ Len(decl.fields) = 2
  /\ decl.fields[1].dflt = <<>> /\ decl.fields[2].dflt # <<>>
  /\ Len(entries) = 2

(* C2: round-trip shape preservation: the emitted structure has the        *)
(* declaration's attributes, visibility, name, generics and where-clause,  *)
(* shape and fields in order, and its tokens are the input's with every    *)
(* `= expr` removed.                                                       *)
C2_RoundTrip ==
  Emitted =>
    /\ IsPrefix(PlainTokens(decl), ItemStructTokens(item_struct[1]))
    /\ Len(PlainTokens(decl)) = Len(ItemStructTokens(item_struct[1]))
    /\ ~BoundTakesParens(decl) =>
         /\ item_struct[1].attrs = decl.head.attrs
         /\ item_struct[1].vis = decl.head.vis
         /\ item_struct[1].ident = decl.head.ident
         /\ item_struct[1].generics.params = decl.head.params
         /\ item_struct[1].generics.where_clause = DeclWhere(decl)
         /\ item_struct[1].fields.shape = decl.shape
         /\ Len(item_struct[1].fields.list) = Len(decl.fields)
         /\ \A i \in 1..Len(decl.fields) :
              item_struct[1].fields.list[i] = decl.fields[i].field

C2_Witness ==
  /\ pc = "done" /\ item_struct # <<>> /\ Len(decl.fields) = 2
  /\ decl.fields[1].dflt # <<>> /\ decl.fields[1] # decl.fields[2]
  /\ decl.head.attrs # <<>> /\ decl.where_after

(* C3 (as claimed): a field list the standard grammar accepts is accepted: *)
(* after a field, a comma or the end of the list means no default, so a    *)
(* last field without default and without trailing comma parses.           *)
C3_EndOfListAccepted ==
  (pc # "start" /\ decl.head.wf /\ FieldsWf(decl) /\ StdBody(decl)) => parsed # <<>>

(* C4: a syntax error aborts the invocation: a declaration that violates   *)
(* the extended grammar yields only the compile error; nothing is          *)
(* synthesized from a failed parse.                                        *)
C4_ErrorNoPartialOutput ==
  /\ (pc = "done" /\ (~GrammarOk(decl) \/ parsed = <<>>)) =>
       /\ output = to_compile_error
       /\ parsed = <<>> /\ entries = <<>> /\ default_impl = <<>> /\ item_struct = <<>>
  /\ (pc \in {"parsed", "impl", "item"}) => (parsed # <<>> /\ GrammarOk(decl))

C4_Witness ==
  /\ pc = "done" /\ output = to_compile_error
  /\ decl.head.wf /\ decl.shape = "Named" /\ ~decl.semi /\ Len(decl.fields) = 2
  /\ decl.fields[1].wf /\ ~decl.fields[2].wf

(* C5: shape coverage: the body of default() is `Self { ident: value, .. }` *)
(* for Named, `Self(value, ..)` for Unnamed and `Self` for Unit, also with *)
(* zero fields.                                                            *)
C5_ShapeCoverage ==
  Synthesized =>
    LET n == Len(decl.fields)
        vals == Join([i \in 1..n |-> ExpectedEntry(decl, i)], ",")
        form == IF BoundTakesParens(decl) \/ decl.shape = "Unit" THEN <<"Self">>
                ELSE IF decl.shape = "Named" THEN <<"Self", "{">> \o vals \o <<"}">>
                ELSE <<"Self", "(">> \o vals \o <<")">>
    IN IsSuffix(<<"{", "fn", "default", "(", ")", "->", "Self", "{">> \o form \o <<"}", "}">>,
                default_impl)

C5_Witness ==
  /\ pc = "done" /\ parsed # <<>> /\ decl.shape = "Unnamed" /\ decl.fields = <<>>
  /\ parsed[1].fields.shape = "Unnamed"

(* C6: generics propagation: the impl header declares the declaration's    *)
(* generic parameters, the type reference applies them by name in the same *)
(* order, and the impl carries exactly the emitted structure's             *)
(* where-clause; no parameters give an impl without parameters.            *)
C6_GenericsPropagation ==
  Synthesized =>
    LET ps == decl.head.params
        declared == IF ps = <<>> THEN <<>>
                    ELSE <<"<">> \o Join([i \in 1..Len(ps) |->
                           <<ps[i].name>> \o (IF ps[i].bounds = <<>> THEN <<>>
                                              ELSE <<":">> \o ps[i].bounds)], ",") \o <<">">>
        applied == IF ps = <<>> THEN <<>>
                   ELSE <<"<">> \o Join([i \in 1..Len(ps) |-> <<ps[i].name>>], ",") \o <<">">>
        wc == parsed[1].generics.where_clause
        where == IF wc = <<>> THEN <<>> ELSE wc[1]
    IN /\ IsPrefix(<<"impl">> \o declared \o <<"core", "::", "default", "::", "Default", "for">>
                   \o <<decl.head.ident>> \o applied \o where \o <<"{", "fn">>, default_impl)
       /\ ~BoundTakesParens(decl) => wc = DeclWhere(decl)
       /\ Emitted => item_struct[1].generics = parsed[1].generics

C6_Witness ==
  /\ pc = "done" /\ parsed # <<>> /\ Len(decl.head.params) = 2
  /\ parsed[1].generics.where_clause # <<>>

(* C7 (as claimed): the output is exactly the plain structure definition   *)
(* followed by the Default impl block, and nothing else.                   *)
C7_OutputIsStructThenImpl ==
  (pc = "done" /\ parsed # <<>>) => output = PlainTokens(decl) \o default_impl

(* C7 (amended): the output is the plain structure definition followed by  *)
(* `const _: () = { <impl block> };`, and nothing else.                    *)
C7_OutputIsStructThenConstImpl ==
  (pc = "done" /\ parsed # <<>>) =>
    output = PlainTokens(decl) \o <<"const", "_", ":", "(", ")", "=", "{">>
             \o default_impl \o <<"}", ";">>

C7_Witness ==
  /\ pc = "done" /\ parsed # <<>> /\ decl.shape = "Named" /\ Len(decl.fields) = 1
  /\ IsPrefix(<<"struct", "S", "{">>, output)

(* C8 (as claimed): for the unnamed form a where-clause before the         *)
(* parenthesized field list and one between it and `;` both parse as       *)
(* Unnamed with the where-clause in the generics record.                   *)
C8_WhereEitherPosition ==
  (/\ pc # "start" /\ decl.shape = "Unnamed" /\ decl.head.wf /\ FieldsWf(decl)
   /\ LastFieldClosed(decl) /\ decl.semi
   /\ decl.where_before # decl.where_after) =>
    /\ parsed # <<>>
    /\ parsed[1].fields.shape = "Unnamed"
    /\ parsed[1].generics.where_clause = DeclWhere(decl)

(* C8 (amended): for the unnamed form a where-clause is accepted between   *)
(* the field list and `;`, where the parse gives Unnamed with that         *)
(* where-clause in the generics record; with a where-clause before the     *)
(* parenthesized list the tokens are never parsed as Unnamed; and the      *)
(* generics record holds at most one where-clause.                         *)
C8_WhereAfterOnly ==
  pc # "start" =>
    /\ (/\ decl.shape = "Unnamed" /\ decl.head.wf /\ FieldsWf(decl)
        /\ LastFieldClosed(decl) /\ decl.semi
        /\ ~decl.where_before /\ decl.where_after) =>
         /\ parsed # <<>>
         /\ parsed[1].fields.shape = "Unnamed"
         /\ parsed[1].generics.where_clause = DeclWhere(decl)
    /\ (decl.shape = "Unnamed" /\ decl.where_before) =>
         (parsed = <<>> \/ parsed[1].fields.shape # "Unnamed")
    /\ parsed # <<>> => Len(parsed[1].generics.where_clause) <= 1

C8_Witness ==
  /\ pc = "done" /\ parsed # <<>> /\ decl.shape = "Unnamed" /\ decl.where_after
  /\ ~decl.where_before /\ Len(decl.fields) = 2
  /\ parsed[1].generics.where_clause # <<>>

(* C9: terminator invariant: a parsed definition has the `;` marker        *)
(* exactly when its shape is Unnamed or Unit, and a parenthesized field    *)
(* list not followed (after an optional where-clause) by `;` is rejected.  *)
C9_Terminator ==
  pc # "start" =>
    /\ parsed # <<>> =>
         /\ (parsed[1].semi_token # <<>>) <=> (parsed[1].fields.shape \in {"Unnamed", "Unit"})
         /\ (parsed[1].semi_token = <<>>) <=> (parsed[1].fields.shape = "Named")
    /\ (decl.shape = "Unnamed" /\ ~decl.semi) => parsed = <<>>

C9_Witness ==
  /\ pc = "done" /\ parsed # <<>> /\ parsed[1].fields.shape = "Unnamed"
  /\ parsed[1].semi_token = <<";">> /\ Len(decl.fields) = 1

(* C10: default-expression boundary: the expression ends before the        *)
(* field-separating comma, and commas inside a parenthesized literal are   *)
(* part of it: a list of n fields parses to n fields and each default is   *)
(* the whole expression as written.                                        *)
C10_ExprBoundary ==
  (/\ pc # "start" /\ decl.head.wf /\ FieldsWf(decl) /\ LastFieldClosed(decl)
   /\ StdBody(decl) /\ decl.shape \in {"Named", "Unnamed"}) =>
    /\ parsed # <<>>
    /\ Len(parsed[1].fields.list) = Len(decl.fields)
    /\ \A i \in 1..Len(decl.fields) :
         /\ parsed[1].fields.list[i].field = decl.fields[i].field
         /\ (decl.fields[i].dflt = <<>>) <=> (parsed[1].fields.list[i].default_value = <<>>)
         /\ decl.fields[i].dflt # <<>> =>
              parsed[1].fields.list[i].default_value[1].value = decl.fields[i].dflt[1]

C10_Witness ==
  /\ pc = "done" /\ parsed # <<>> /\ Len(decl.fields) = 2 /\ ~decl.trailing
  /\ decl.fields[1].dflt = <<<<"(", "0", ",", "1", ")">>>>
  /\ decl.fields[2].dflt = <<<<"(", "0", ",", "1", ")">>>>
  /\ parsed[1].fields.list[1].default_value[1].value = <<"(", "0", ",", "1", ")">>

====
